---- MODULE Spec2Model ----
(***************************************************************************)
(* Model of the configuration-document parser of scripts/build_dashboard.py *)
(* (_strip_quotes, _parse_scalar, _parse_block, _parse_map,                 *)
(* _parse_block_scalar, parse_yaml).                                        *)
(*                                                                          *)
(* A Python str is a sequence of one-character strings.  A parsed value is  *)
(* a record tagged with its Python type: None, str, list or dict; a dict is *)
(* a sequence of key/value pairs in insertion order.  Line indices are the  *)
(* 0-based indices of the code: line i of the code is lines[i + 1].         *)
(***************************************************************************)
EXTENDS Integers, Sequences, FiniteSets, TLC

VARIABLES text, file_lines, value, pc, result, call, ret

vars == <<text, file_lines, value, pc, result, call, ret>>

----------------------------------------------------------------------------
(* Python str primitives                                                    *)

\* the characters str.strip() / str.lstrip() / str.rstrip() remove
Whitespace == {" ", "\t", "\n"}

RECURSIVE lstrip_chars(_, _)
lstrip_chars(s, cs) ==
    IF s # <<>> /\ Head(s) \in cs THEN lstrip_chars(Tail(s), cs) ELSE s

RECURSIVE rstrip_chars(_, _)
rstrip_chars(s, cs) ==
    IF s # <<>> /\ s[Len(s)] \in cs
    THEN rstrip_chars(SubSeq(s, 1, Len(s) - 1), cs)
    ELSE s

lstrip(s) == lstrip_chars(s, Whitespace)

rstrip(s) == rstrip_chars(s, Whitespace)

strip(s) == rstrip(lstrip(s))

startswith(s, p) == Len(s) >= Len(p) /\ SubSeq(s, 1, Len(p)) = p

endswith(s, p) == Len(s) >= Len(p) /\ SubSeq(s, Len(s) - Len(p) + 1, Len(s)) = p

\* s[n:]
slice_from(s, n) == SubSeq(s, n + 1, Len(s))

\* c in s
contains(s, c) == \E k \in 1..Len(s) : s[k] = c

\* position of the first c in s (s contains c)
first_index(s, c) == CHOOSE k \in 1..Len(s) : s[k] = c /\ \A j \in 1..(k - 1) : s[j] # c

\* s.split(c, 1)[0] and s.split(c, 1)[1], for s containing c
split_left(s, c) == SubSeq(s, 1, first_index(s, c) - 1)

split_right(s, c) == SubSeq(s, first_index(s, c) + 1, Len(s))

\* "\n".join(buf)
RECURSIVE join_newline(_)
join_newline(buf) ==
    IF buf = <<>> THEN <<>>
    ELSE IF Len(buf) = 1 THEN buf[1]
    ELSE buf[1] \o <<"\n">> \o join_newline(Tail(buf))

\* str.splitlines(): lines end at "\n"; no empty last line after a final "\n"
RECURSIVE splitlines_from(_, _, _)
splitlines_from(s, cur, acc) ==
    IF s = <<>> THEN (IF cur = <<>> THEN acc ELSE Append(acc, cur))
    ELSE IF Head(s) = "\n" THEN splitlines_from(Tail(s), <<>>, Append(acc, cur))
    ELSE splitlines_from(Tail(s), Append(cur, Head(s)), acc)

splitlines(s) == splitlines_from(s, <<>>, <<>>)

----------------------------------------------------------------------------
(* Python values                                                            *)

None == [tag |-> "None"]

Str(s) == [tag |-> "str", str |-> s]

List(xs) == [tag |-> "list", elems |-> xs]

Dict(ps) == [tag |-> "dict", pairs |-> ps]

EmptyDict == Dict(<<>>)

dict_keys(d) == [k \in 1..Len(d.pairs) |-> d.pairs[k].key]

dict_has(d, key) == \E k \in 1..Len(d.pairs) : d.pairs[k].key = key

dict_get(d, key) == d.pairs[CHOOSE k \in 1..Len(d.pairs) : d.pairs[k].key = key].val

\* d[key] = val: an existing key keeps its place, a new key goes last
dict_set(d, key, val) ==
    IF dict_has(d, key)
    THEN Dict([k \in 1..Len(d.pairs) |->
                 IF d.pairs[k].key = key THEN [key |-> key, val |-> val] ELSE d.pairs[k]])
    ELSE Dict(Append(d.pairs, [key |-> key, val |-> val]))

\* d.update(extra)
RECURSIVE dict_update(_, _)
dict_update(d, extra) ==
    IF extra.pairs = <<>> THEN d
    ELSE dict_update(dict_set(d, extra.pairs[1].key, extra.pairs[1].val),
                     Dict(Tail(extra.pairs)))

\* what a parsing function hands back: its (value, next index), or the exception
\* that leaves it
Return(v, i) == [val |-> v, i |-> i, exc |-> "none"]

Raise(e, i) == [val |-> None, i |-> i, exc |-> e]

----------------------------------------------------------------------------
(* The parser                                                               *)

\* the step by which a nested block is indented (indent + 2)
IndentStep == 2

\* _strip_quotes removing a quote at either end
_strip_quotes_either_end(v) ==
    IF \/ startswith(v, <<"\"">>) \/ endswith(v, <<"\"">>)
       \/ startswith(v, <<"'">>) \/ endswith(v, <<"'">>)
    THEN SubSeq(v, 2, Len(v) - 1)
    ELSE v

\* _strip_quotes removing every surrounding pair, not only the outer one
RECURSIVE _strip_quotes_all_pairs(_)
_strip_quotes_all_pairs(v) ==
    IF \/ startswith(v, <<"\"">>) /\ endswith(v, <<"\"">>)
       \/ startswith(v, <<"'">>) /\ endswith(v, <<"'">>)
    THEN _strip_quotes_all_pairs(SubSeq(v, 2, Len(v) - 1))
    ELSE v

_strip_quotes(v) ==
    IF \/ startswith(v, <<"\"">>) /\ endswith(v, <<"\"">>)
       \/ startswith(v, <<"'">>) /\ endswith(v, <<"'">>)
    THEN SubSeq(v, 2, Len(v) - 1)
    ELSE v

_parse_scalar(v) == _strip_quotes(strip(v))

\* is_blank_or_comment skipping the comment lines only
is_comment_only(raw) == startswith(lstrip(raw), <<"#">>)

\* is_blank_or_comment skipping the blank lines only
is_blank_only(raw) == strip(raw) = <<>>

\* not raw.strip() or raw.lstrip().startswith("#")
is_blank_or_comment(raw) == strip(raw) = <<>> \/ startswith(lstrip(raw), <<"#">>)

\* len(raw) - len(raw.lstrip(" "))
curr_indent(raw) == Len(raw) - Len(lstrip_chars(raw, {" "}))

\* line.startswith("- ")
is_item(line) == startswith(line, <<"-", " ">>)

\* block_scalar_loop taking only the lines indented deeper than indent
RECURSIVE block_scalar_loop_deeper(_, _, _, _)
block_scalar_loop_deeper(lines, i, indent, buf) ==
    IF i < Len(lines) /\ curr_indent(lines[i + 1]) > indent
    THEN block_scalar_loop_deeper(lines, i + 1, indent,
                                  Append(buf, slice_from(lines[i + 1], indent)))
    ELSE [buf |-> buf, i |-> i]

\* a call of one of the three parsing functions
Call(fn, start, indent) == [fn |-> fn, start |-> start, indent |-> indent]

\* how one pass through the body of a while loop ends: the loop goes on at cursor i
\* with the object obj, or the loop and the function are left with ret; calls
\* are the calls of parsing functions the pass made, in order
Continue(i, obj) ==
    [exit |-> FALSE, i |-> i, obj |-> obj, ret |-> Return(None, i), calls |-> <<>>]

Leave(r) == [exit |-> TRUE, i |-> r.i, obj |-> None, ret |-> r, calls |-> <<>>]

WithCalls(pass, calls) == [pass EXCEPT !.calls = calls]

\* block_break handing back the index after the line that ends the block
block_break_consuming(i, obj) == Leave(Return(obj, i + 1))

\* `break`: the loop is left at the line that ends the block, and the function
\* returns the object so far with the index of that line
block_break(i, obj) == Leave(Return(obj, i))

\* skip_line failing on the line without a colon
skip_line_raising(i, obj) == Leave(Raise("ValueError", i))

\* `i += 1; continue` for a line without a colon
skip_line(i, obj) == Continue(i + 1, obj)

\* block_scalar_iteration without the `i += 1`
block_scalar_iteration_stuck(lines, i, indent, buf) ==
    IF curr_indent(lines[i + 1]) < indent
    THEN Leave(Return(Str(rstrip(join_newline(buf))), i))
    ELSE Continue(i, Append(buf, slice_from(lines[i + 1], indent)))

\* one pass of the loop of _parse_block_scalar, at cursor i < len(lines)
block_scalar_iteration(lines, i, indent, buf) ==
    IF curr_indent(lines[i + 1]) < indent
    THEN Leave(Return(Str(rstrip(join_newline(buf))), i))
    ELSE Continue(i + 1, Append(buf, slice_from(lines[i + 1], indent)))

RECURSIVE block_scalar_loop(_, _, _, _)
block_scalar_next(lines, indent, buf, pass) ==
    IF pass.exit THEN [buf |-> buf, i |-> pass.i]
    ELSE block_scalar_loop(lines, pass.i, indent, pass.obj)

block_scalar_loop(lines, i, indent, buf) ==
    IF i >= Len(lines) THEN [buf |-> buf, i |-> i]
    ELSE block_scalar_next(lines, indent, buf, block_scalar_iteration(lines, i, indent, buf))

_parse_block_scalar(lines, start, indent) ==
    LET r == block_scalar_loop(lines, start, indent, <<>>)
    IN  Return(Str(rstrip(join_newline(r.buf))), r.i)

RECURSIVE _parse_block(_, _, _)
RECURSIVE _parse_map(_, _, _)
RECURSIVE block_loop(_, _, _, _)
RECURSIVE map_loop(_, _, _, _)

\* block_value storing the text after the colon as it stands
block_value_raw(lines, i, indent, rest) ==
    IF rest = <<"|">> THEN _parse_block_scalar(lines, i + 1, indent + IndentStep)
    ELSE IF rest = <<>> THEN _parse_block(lines, i + 1, indent + IndentStep)
    ELSE Return(Str(rest), i + 1)

\* the value of `key: rest` on line i of a block at indent, and the index after it
block_value(lines, i, indent, rest) ==
    IF rest = <<"|">> THEN _parse_block_scalar(lines, i + 1, indent + IndentStep)
    ELSE IF rest = <<>> THEN _parse_block(lines, i + 1, indent + IndentStep)
    ELSE Return(Str(_parse_scalar(rest)), i + 1)

map_value(lines, i, indent, rest) ==
    IF rest = <<"|">> THEN _parse_block_scalar(lines, i + 1, indent + IndentStep)
    ELSE IF rest = <<>> THEN _parse_block(lines, i + 1, indent + IndentStep)
    ELSE Return(Str(_parse_scalar(rest)), i + 1)

item_value(lines, i, indent, rest) ==
    IF rest = <<"|">> THEN _parse_block_scalar(lines, i + 1, indent + IndentStep)
    ELSE IF rest = <<>> THEN _parse_block(lines, i + 1, indent + IndentStep)
    ELSE Return(Str(_parse_scalar(rest)), i + 1)

\* the call that reads the value of `key: rest` on line i, if it takes one
value_calls(i, indent, rest) ==
    IF rest = <<"|">> THEN <<Call("_parse_block_scalar", i + 1, indent + IndentStep)>>
    ELSE IF rest = <<>> THEN <<Call("_parse_block", i + 1, indent + IndentStep)>>
    ELSE <<>>

\* has_continuation looking for the fields at the indent of the item marker
has_continuation_same_indent(lines, i, indent) ==
    /\ i < Len(lines)
    /\ curr_indent(lines[i + 1]) = indent
    /\ ~is_item(lstrip(lines[i + 1]))

\* the test that lets _parse_map add fields to the item just read
has_continuation(lines, i, indent) ==
    /\ i < Len(lines)
    /\ curr_indent(lines[i + 1]) = indent + IndentStep
    /\ ~is_item(lstrip(lines[i + 1]))

\* list_append putting the new element in front of the list
list_insert_front(lines, i, indent, obj, v) ==
    IF obj.tag = "list"
    THEN Continue(i, List(<<v>> \o obj.elems))
    ELSE Leave(Raise("AttributeError", i))

\* obj.append(v): only a list has append
list_append(lines, i, indent, obj, v) ==
    IF obj.tag = "list"
    THEN Continue(i, List(Append(obj.elems, v)))
    ELSE Leave(Raise("AttributeError", i))

\* obj[key] = v: a list takes no str index
block_assign(lines, i, indent, obj, key, v) ==
    IF obj.tag = "dict"
    THEN Continue(i, dict_set(obj, key, v))
    ELSE Leave(Raise("TypeError", i))

\* one `- ...` line of _parse_block
sequence_item(lines, i, indent, obj0, line) ==
    LET obj  == IF obj0.tag = "None" THEN List(<<>>) ELSE obj0
        item == strip(slice_from(line, 2))
    IN  IF item = <<>>
        THEN LET r     == _parse_block(lines, i + 1, indent + IndentStep)
                 calls == <<Call("_parse_block", i + 1, indent + IndentStep)>>
             IN  IF r.exc # "none" THEN WithCalls(Leave(r), calls)
                 ELSE WithCalls(list_append(lines, r.i, indent, obj, r.val), calls)
        ELSE IF contains(item, ":")
        THEN LET key   == strip(split_left(item, ":"))
                 rest  == strip(split_right(item, ":"))
                 first == item_value(lines, i, indent, rest)
                 more  == first.exc = "none" /\ has_continuation(lines, first.i, indent)
                 extra == IF more
                          THEN _parse_map(lines, first.i, indent + IndentStep)
                          ELSE Return(EmptyDict, first.i)
                 calls == value_calls(i, indent, rest) \o
                          (IF more THEN <<Call("_parse_map", first.i, indent + IndentStep)>>
                           ELSE <<>>)
             IN  IF first.exc # "none" THEN WithCalls(Leave(first), calls)
                 ELSE IF extra.exc # "none" THEN WithCalls(Leave(extra), calls)
                 ELSE WithCalls(list_append(lines, extra.i, indent, obj,
                                            dict_update(dict_set(EmptyDict, key, first.val),
                                                        extra.val)),
                                calls)
        ELSE list_append(lines, i + 1, indent, obj, Str(_parse_scalar(item)))

\* one line of _parse_block that is no `- ...` line
mapping_line(lines, i, indent, obj0, line) ==
    LET obj == IF obj0.tag = "None" THEN EmptyDict ELSE obj0
    IN  IF ~contains(line, ":")
        THEN skip_line(i, obj)
        ELSE LET key  == strip(split_left(line, ":"))
                 rest == strip(split_right(line, ":"))
                 r    == block_value(lines, i, indent, rest)
             IN  IF r.exc # "none" THEN WithCalls(Leave(r), value_calls(i, indent, rest))
                 ELSE WithCalls(block_assign(lines, r.i, indent, obj, key, r.val),
                                value_calls(i, indent, rest))

\* one pass of the while loop of _parse_block, at cursor i < len(lines) with the
\* object so far
block_iteration(lines, i, indent, obj) ==
    LET raw == lines[i + 1]
    IN  IF is_blank_or_comment(raw) THEN Continue(i + 1, obj)
        ELSE IF curr_indent(raw) < indent THEN block_break(i, obj)
        ELSE IF curr_indent(raw) > indent THEN block_break(i, obj)
        ELSE IF is_item(slice_from(raw, indent))
             THEN sequence_item(lines, i, indent, obj, slice_from(raw, indent))
             ELSE mapping_line(lines, i, indent, obj, slice_from(raw, indent))

\* the while loop of _parse_block, entered with cursor i and the object so far
block_next(lines, indent, pass) ==
    IF pass.exit THEN pass.ret ELSE block_loop(lines, pass.i, indent, pass.obj)

block_loop(lines, i, indent, obj) ==
    IF i >= Len(lines) THEN Return(obj, i)
    ELSE block_next(lines, indent, block_iteration(lines, i, indent, obj))

_parse_block(lines, start, indent) == block_loop(lines, start, indent, None)

\* one pass of the while loop of _parse_map, at cursor i < len(lines)
map_iteration(lines, i, indent, data) ==
    LET raw  == lines[i + 1]
        line == slice_from(raw, indent)
    IN  IF is_blank_or_comment(raw) THEN Continue(i + 1, data)
        ELSE IF curr_indent(raw) < indent THEN block_break(i, data)
        ELSE IF curr_indent(raw) > indent THEN block_break(i, data)
        ELSE IF is_item(line) THEN block_break(i, data)
        ELSE IF ~contains(line, ":") THEN skip_line(i, data)
        ELSE LET key  == strip(split_left(line, ":"))
                 rest == strip(split_right(line, ":"))
                 r    == map_value(lines, i, indent, rest)
             IN  IF r.exc # "none" THEN WithCalls(Leave(r), value_calls(i, indent, rest))
                 ELSE WithCalls(Continue(r.i, dict_set(data, key, r.val)),
                                value_calls(i, indent, rest))

\* the while loop of _parse_map
map_next(lines, indent, pass) ==
    IF pass.exit THEN pass.ret ELSE map_loop(lines, pass.i, indent, pass.obj)

map_loop(lines, i, indent, data) ==
    IF i >= Len(lines) THEN Return(data, i)
    ELSE map_next(lines, indent, map_iteration(lines, i, indent, data))

_parse_map(lines, start, indent) == map_loop(lines, start, indent, EmptyDict)

\* what a call of parse_yaml ends in
Returned(v) == [kind |-> "return", val |-> v, exc |-> "none"]

Raised(e) == [kind |-> "raise", val |-> None, exc |-> e]

NoResult == [kind |-> "none", val |-> None, exc |-> "none"]

parse_yaml(txt) ==
    LET r == _parse_block(splitlines(txt), 0, 0)
    IN  IF r.exc # "none" THEN Raised(r.exc)
        ELSE IF r.val.tag # "dict" THEN Raised("ValueError")
        ELSE Returned(r.val)

----------------------------------------------------------------------------
(* The documents and scalars the parser is run on                           *)

\* the longest document body, in lines
MaxLines == 3

\* the longest scalar handed to _parse_scalar, in characters
MaxScalarLen == 5

SeqsUpTo(S, n) == UNION { [1..k -> S] : k \in 0..n }

Spaces(n) == [k \in 1..n |-> " "]

\* the text of a file with these lines, each ended by a newline
RECURSIVE TextOf(_)
TextOf(ls) == IF ls = <<>> THEN <<>> ELSE Head(ls) \o <<"\n">> \o TextOf(Tail(ls))

\* lines of any shape at indent 0 and 2
TopPool ==
    { <<"a", ":", " ", "1">>,
      <<"b", ":">>,
      <<"k", ":", " ", "|">>,
      <<"-", " ", "x">>,
      <<"-", " ", "a", ":", " ", "1">>,
      <<"-", " ">>,
      <<"x">>,
      <<>>,
      <<"#", " ", "c">>,
      <<" ", " ", "a", ":", " ", "1">>,
      <<" ", " ", "-", " ", "x">>,
      <<" ", " ", "b", ":", " ", "2">> }

TopDocs == { TextOf(ls) : ls \in SeqsUpTo(TopPool, MaxLines) }

\* flat `key: value` lines: the key of the mapping, the text before the colon and
\* the text after it
FlatEntries ==
    { [key |-> <<"a">>, lhs |-> <<"a">>, raw |-> <<" ", "1">>],
      [key |-> <<"b">>, lhs |-> <<"b">>, raw |-> <<" ", "'", "q", "'">>],
      [key |-> <<"c">>, lhs |-> <<"c">>, raw |-> <<" ", " ", "z", " ">>],
      [key |-> <<"a">>, lhs |-> <<"a", " ">>, raw |-> <<" ", "\"", "x", " ", "y", "\"">>],
      [key |-> <<"d">>, lhs |-> <<"d">>, raw |-> <<" ", "p", ":", "q">>],
      [key |-> <<"e">>, lhs |-> <<"\t", "e">>, raw |-> <<" ", "'">>] }

FlatLine(e) == e.lhs \o <<":">> \o e.raw

FlatDocs == { TextOf([k \in DOMAIN es |-> FlatLine(es[k])]) :
                es \in SeqsUpTo(FlatEntries, MaxLines) }

\* the lines of a sequence under `items:`: `- key: val` items at indent 2, their
\* further `key: val` fields at indent 4, blank lines and comments
ItemEntries ==
    { [kind |-> "item", key |-> <<"n">>, val |-> <<"x">>],
      [kind |-> "item", key |-> <<"n">>, val |-> <<"'", "y", "'">>],
      [kind |-> "field", key |-> <<"v">>, val |-> <<"1">>],
      [kind |-> "field", key |-> <<"n">>, val |-> <<"z">>],
      [kind |-> "field", key |-> <<"w">>, val |-> <<"\"", "2", " ", "\"">>],
      [kind |-> "blank", key |-> <<>>, val |-> <<>>],
      [kind |-> "comment", key |-> <<>>, val |-> <<"#", " ", "c">>],
      [kind |-> "comment4", key |-> <<>>, val |-> <<"#", " ", "c">>] }

ItemLine(e) ==
    CASE e.kind = "item"     -> Spaces(2) \o <<"-", " ">> \o e.key \o <<":", " ">> \o e.val
      [] e.kind = "field"    -> Spaces(4) \o e.key \o <<":", " ">> \o e.val
      [] e.kind = "blank"    -> <<>>
      [] e.kind = "comment"  -> e.val
      [] e.kind = "comment4" -> Spaces(4) \o e.val

ItemsHeader == <<"i", "t", "e", "m", "s", ":">>

ItemDocs == { TextOf(<<ItemsHeader>> \o [k \in DOMAIN es |-> ItemLine(es[k])]) :
                es \in SeqsUpTo(ItemEntries, MaxLines) }

\* the lines after a `note: |` line at indent 0, and the empty line
NoteBody ==
    { <<" ", " ", "o", "n", "e">>,
      <<" ", " ", " ", " ", "t", "w", "o", " ">>,
      <<" ", " ", "#", " ", "c">>,
      <<" ", " ", "-", " ", "x">>,
      <<" ", " ", "k", ":", " ", "v">>,
      <<"b", ":", " ", "1">>,
      <<" ", "z">>,
      <<" ", " ", " ">> }

EmptyLine == <<>>

NoteKey == <<"n", "o", "t", "e">>

NoteOuterKey == <<"a">>

NoteLine == NoteKey \o <<":", " ", "|">>

\* `note: |` at indent ind: at the root, or in the mapping of a root key `a:`
NoteLines(ind, body) ==
    LET shifted == [k \in DOMAIN body |->
                      IF body[k] = EmptyLine THEN EmptyLine ELSE Spaces(ind) \o body[k]]
    IN  IF ind = 0 THEN <<NoteLine>> \o shifted
        ELSE <<NoteOuterKey \o <<":">>, Spaces(ind) \o NoteLine>> \o shifted

NoteIndents == {0, 2}

NoteDocs == { TextOf(NoteLines(ind, body)) :
                ind \in NoteIndents, body \in SeqsUpTo(NoteBody \cup {EmptyLine}, MaxLines) }

Documents == TopDocs \cup FlatDocs \cup ItemDocs \cup NoteDocs

\* the lines of the texts whose lines the parsing functions are called on
CallPool ==
    { <<"a", ":", " ", "1">>,
      <<"b", ":">>,
      <<"x">>,
      <<>>,
      <<"#", " ", "c">>,
      <<"-", " ", "x">>,
      <<"-", " ">>,
      <<" ", " ", "b", ":", " ", "2">>,
      <<" ", " ", "-", " ", "y">> }

\* the first line of a sequence item `- key: rest`, rest being a plain scalar,
\* empty or `|`
ItemHeads ==
    { <<"-", " ", "a", ":", " ", "1">>,
      <<"-", " ", "a", ":">>,
      <<"-", " ", "k", ":", " ", "|">> }

\* the lines after it: fields at indent 2, a deeper line, the next item
FieldPool ==
    { <<" ", " ", "b", ":", " ", "2">>,
      <<" ", " ", "c", ":">>,
      <<" ", " ", " ", " ", "z">>,
      <<"-", " ", "x">> }

ItemFormDocs == { TextOf(<<h>> \o ls) : h \in ItemHeads, ls \in SeqsUpTo(FieldPool, MaxLines) }

CallDocs == { TextOf(ls) : ls \in SeqsUpTo(CallPool, MaxLines) } \cup ItemFormDocs

\* the indents the parsing functions are called with
CallIndents == {0, 2}

NoCall == Call("none", 0, 0)

NoReturn == Return(None, 0)

ScalarAlphabet == {" ", "'", "\"", "a"}

\* the scalar of the documented limitation: 'it''s'
ScalarExamples == { <<"'", "i", "t", "'", "'", "s", "'">> }

Scalars == SeqsUpTo(ScalarAlphabet, MaxScalarLen) \cup ScalarExamples

----------------------------------------------------------------------------
(* Specifications                                                           *)

\* parse_yaml is handed the text of a file
Init ==
    /\ text \in Documents
    /\ file_lines = splitlines(text)
    /\ value = <<>>
    /\ pc = "start"
    /\ result = NoResult
    /\ call = NoCall
    /\ ret = NoReturn

ParseYaml ==
    /\ pc = "start"
    /\ result' = parse_yaml(text)
    /\ pc' = "done"
    /\ UNCHANGED <<text, file_lines, value, call, ret>>

Next == ParseYaml

Spec == Init /\ [][Next]_vars

\* _parse_scalar is handed a scalar; result.val is what it returns
InitScalar ==
    /\ text = <<>>
    /\ file_lines = <<>>
    /\ value \in Scalars
    /\ pc = "start"
    /\ result = NoResult
    /\ call = NoCall
    /\ ret = NoReturn

ParseScalar ==
    /\ pc = "start"
    /\ result' = Returned(Str(_parse_scalar(value)))
    /\ pc' = "done"
    /\ UNCHANGED <<text, file_lines, value, call, ret>>

NextScalar == ParseScalar

SpecScalar == InitScalar /\ [][NextScalar]_vars

\* _parse_block, _parse_map and _parse_block_scalar are handed the lines of a
\* text, a start index and an indent; ret is what the call hands back
InitCalls ==
    /\ text \in CallDocs
    /\ file_lines = splitlines(text)
    /\ value = <<>>
    /\ pc = "start"
    /\ result = NoResult
    /\ call = NoCall
    /\ ret = NoReturn

CallParseBlock ==
    /\ pc = "start"
    /\ \E s \in 0..Len(file_lines), ind \in CallIndents :
          /\ call' = Call("_parse_block", s, ind)
          /\ ret' = _parse_block(file_lines, s, ind)
    /\ pc' = "done"
    /\ UNCHANGED <<text, file_lines, value, result>>

CallParseMap ==
    /\ pc = "start"
    /\ \E s \in 0..Len(file_lines), ind \in CallIndents :
          /\ call' = Call("_parse_map", s, ind)
          /\ ret' = _parse_map(file_lines, s, ind)
    /\ pc' = "done"
    /\ UNCHANGED <<text, file_lines, value, result>>

CallParseBlockScalar ==
    /\ pc = "start"
    /\ \E s \in 0..Len(file_lines), ind \in CallIndents :
          /\ call' = Call("_parse_block_scalar", s, ind)
          /\ ret' = _parse_block_scalar(file_lines, s, ind)
    /\ pc' = "done"
    /\ UNCHANGED <<text, file_lines, value, result>>

NextCalls == CallParseBlock \/ CallParseMap \/ CallParseBlockScalar

SpecCalls == InitCalls /\ [][NextCalls]_vars

----------------------------------------------------------------------------
(* Properties of parse_yaml (specification Spec)                            *)

\* the lines parse_yaml works on
Lines == file_lines

\* what the top-level call _parse_block(lines, 0, 0) hands to parse_yaml
Top == _parse_block(Lines, 0, 0)

Substantive(raw) == ~is_blank_or_comment(raw)

\* the number of leading space characters of a line
LeadingSpaces(l) ==
    CHOOSE n \in 0..Len(l) :
        /\ \A j \in 1..n : l[j] = " "
        /\ n = Len(l) \/ l[n + 1] # " "

StructureError == Raised("ValueError")

ReturnsMapping == result.kind = "return" /\ result.val.tag = "dict"

\* C1: for every input text parse_yaml either returns a Mapping or fails with
\* StructureError (ValueError); when the top-level block parse yields a Sequence
\* or Empty, StructureError is raised and nothing is returned.
C1_MappingOrStructureError ==
    pc = "done" =>
        /\ ReturnsMapping \/ result = StructureError
        /\ (Top.exc = "none" /\ Top.val.tag \in {"list", "None"}) => result = StructureError

\* a document whose substantive lines at indent 0 all start with `- `
BareSequence(ls) ==
    /\ \E k \in 1..Len(ls) : Substantive(ls[k]) /\ LeadingSpaces(ls[k]) = 0
    /\ \A k \in 1..Len(ls) :
          (Substantive(ls[k]) /\ LeadingSpaces(ls[k]) = 0) => startswith(ls[k], <<"-", " ">>)

\* a document of one substantive line, at indent 0, with no `:` and no `- `
BareScalar(ls) ==
    \E k \in 1..Len(ls) :
        /\ Substantive(ls[k])
        /\ LeadingSpaces(ls[k]) = 0
        /\ ~contains(ls[k], ":")
        /\ ~startswith(ls[k], <<"-", " ">>)
        /\ \A j \in 1..Len(ls) : j # k => ~Substantive(ls[j])

\* C2: a document whose top level is a bare sequence or a bare scalar makes
\* parse_yaml raise StructureError; no tree, partial or empty, is returned.
C2_MalformedRootRaises ==
    (pc = "done" /\ (BareSequence(Lines) \/ BareScalar(Lines))) => result = StructureError

IsFlatLine(l) == \E e \in FlatEntries : FlatLine(e) = l

FlatEntryOf(l) == CHOOSE e \in FlatEntries : FlatLine(e) = l

\* a document of one or more flat `key: value` lines with distinct keys
FlatDocument(ls) ==
    /\ Len(ls) >= 1
    /\ \A k \in 1..Len(ls) : IsFlatLine(ls[k])
    /\ \A j, k \in 1..Len(ls) : j # k => FlatEntryOf(ls[j]).key # FlatEntryOf(ls[k]).key

\* C3: a document of flat `key: value` lines at indent 0 (distinct keys, non-empty
\* values other than `|`) parses to the Mapping of exactly those keys, in line
\* order, each mapped to the normalized value.
C3_FlatMapping ==
    (pc = "done" /\ FlatDocument(Lines)) =>
        result = Returned(Dict([k \in 1..Len(Lines) |->
                        [key |-> FlatEntryOf(Lines[k]).key,
                         val |-> Str(_parse_scalar(FlatEntryOf(Lines[k]).raw))]]))

C3_Witness ==
    /\ pc = "done"
    /\ FlatDocument(Lines)
    /\ Lines = << <<"b", ":", " ", "'", "q", "'">>,
                  <<"c", ":", " ", " ", "z", " ">>,
                  <<"a", " ", ":", " ", "\"", "x", " ", "y", "\"">> >>
    /\ result = Returned(Dict(<< [key |-> <<"b">>, val |-> Str(<<"q">>)],
                                 [key |-> <<"c">>, val |-> Str(<<"z">>)],
                                 [key |-> <<"a">>, val |-> Str(<<"x", " ", "y">>)] >>))

IsItemLine(l) == \E e \in ItemEntries : ItemLine(e) = l

ItemEntryOf(l) == CHOOSE e \in ItemEntries : ItemLine(e) = l

\* the entries of the lines after `items:`
ItemEntriesOf(ls) == [k \in 1..(Len(ls) - 1) |-> ItemEntryOf(ls[k + 1])]

\* `items:` followed only by `- key: val` lines at indent 2 and `key: val` lines
\* at indent 4, an item line first
ItemsDocument(ls) ==
    /\ Len(ls) >= 2
    /\ ls[1] = ItemsHeader
    /\ \A k \in 2..Len(ls) : IsItemLine(ls[k]) /\ ItemEntryOf(ls[k]).kind \in {"item", "field"}
    /\ ItemEntryOf(ls[2]).kind = "item"

\* the number of `- ` markers among the first k entries
MarkersUpTo(es, k) == Cardinality({ j \in 1..k : es[j].kind = "item" })

\* the entries of the m-th item: its `- ` line and the field lines after it
ItemGroup(es, m) ==
    LET InGroup(k) == MarkersUpTo(es, k) = m
    IN  [j \in 1..Len(SelectSeq([k \in 1..Len(es) |-> k], InGroup)) |->
            es[SelectSeq([k \in 1..Len(es) |-> k], InGroup)[j]]]

\* the Mapping of a group: its keys in order of first appearance, each with the
\* normalized value of its last line
GroupMapping(g) ==
    LET First(k) == \A j \in 1..(k - 1) : g[j].key # g[k].key
        firsts   == SelectSeq([k \in 1..Len(g) |-> k], First)
        LastOf(key) == CHOOSE k \in 1..Len(g) :
                          g[k].key = key /\ \A j \in (k + 1)..Len(g) : g[j].key # key
    IN  Dict([n \in 1..Len(firsts) |->
                [key |-> g[firsts[n]].key,
                 val |-> Str(_parse_scalar(g[LastOf(g[firsts[n]].key)].val))]])

\* C4: in a sequence, an item line `- k1: v1` followed directly by mapping lines at
\* indent + 2 yields one Mapping item with k1 and those keys in source order; a
\* following `- ` line starts a new item: one element per `- ` marker.
C4_MultiFieldItems ==
    (pc = "done" /\ ItemsDocument(Lines)) =>
        LET es == ItemEntriesOf(Lines)
        IN  result = Returned(Dict(<< [key |-> SubSeq(ItemsHeader, 1, Len(ItemsHeader) - 1),
                                       val |-> List([m \in 1..MarkersUpTo(es, Len(es)) |->
                                                        GroupMapping(ItemGroup(es, m))])] >>))

C4_Witness ==
    /\ pc = "done"
    /\ ItemsDocument(Lines)
    /\ Lines = << ItemsHeader,
                  <<" ", " ", "-", " ", "n", ":", " ", "x">>,
                  <<" ", " ", " ", " ", "v", ":", " ", "1">>,
                  <<" ", " ", "-", " ", "n", ":", " ", "'", "y", "'">> >>
    /\ result = Returned(Dict(<< [key |-> <<"i", "t", "e", "m", "s">>,
                                  val |-> List(<< Dict(<< [key |-> <<"n">>, val |-> Str(<<"x">>)],
                                                          [key |-> <<"v">>, val |-> Str(<<"1">>)] >>),
                                                  Dict(<< [key |-> <<"n">>, val |-> Str(<<"y">>)] >>) >>)] >>))

\* a document that opens with `note: |` at the root (indent 0), or with `a:` and
\* `note: |` in its mapping (indent 2)
NoteDocument(ls) ==
    \/ Len(ls) >= 1 /\ ls[1] = NoteLine
    \/ Len(ls) >= 2 /\ ls[1] = NoteOuterKey \o <<":">> /\ ls[2] = Spaces(2) \o NoteLine

\* the indent of the `note: |` line and its place among the lines
NoteIndent(ls) == IF ls[1] = NoteLine THEN 0 ELSE 2

NoteAt(ls) == IF ls[1] = NoteLine THEN 1 ELSE 2

\* the first line after `note: |` with fewer than indent + 2 leading spaces, or the
\* place after the last line
NoteStop(ls) ==
    CHOOSE n \in (NoteAt(ls) + 1)..(Len(ls) + 1) :
        /\ n = Len(ls) + 1 \/ LeadingSpaces(ls[n]) < NoteIndent(ls) + 2
        /\ \A j \in (NoteAt(ls) + 1)..(n - 1) : LeadingSpaces(ls[j]) >= NoteIndent(ls) + 2

\* s without its trailing whitespace
TrimRight(s) ==
    LET p == CHOOSE q \in 0..Len(s) :
                /\ q = 0 \/ s[q] \notin Whitespace
                /\ \A j \in (q + 1)..Len(s) : s[j] \in Whitespace
    IN  SubSeq(s, 1, p)

\* the lines from..to of ls, each without its first cut characters, joined by newlines
RECURSIVE JoinCut(_, _, _, _)
JoinCut(ls, from, to, cut) ==
    IF from > to THEN <<>>
    ELSE IF from = to THEN SubSeq(ls[from], cut + 1, Len(ls[from]))
    ELSE SubSeq(ls[from], cut + 1, Len(ls[from])) \o <<"\n">> \o JoinCut(ls, from + 1, to, cut)

\* the mapping that holds the key note
NoteMapping(ls) ==
    IF NoteIndent(ls) = 0 THEN result.val ELSE dict_get(result.val, NoteOuterKey)

\* C5: the value of `key: |` at indent I is the Scalar of every directly following
\* line with at least I + 2 leading spaces, whatever its content, each without its
\* first I + 2 characters, joined by newlines and right-trimmed; reading stops at
\* the first line with fewer leading spaces, which the enclosing block parses next.
C5_BlockScalar ==
    (pc = "done" /\ NoteDocument(Lines)) =>
        LET ind  == NoteIndent(Lines)
            stop == NoteStop(Lines)
            next == IF stop <= Len(Lines) /\ Substantive(Lines[stop])
                    THEN Lines[stop] ELSE <<>>
        IN  /\ ReturnsMapping
            /\ dict_keys(NoteMapping(Lines))[1] = NoteKey
            /\ dict_get(NoteMapping(Lines), NoteKey) =
                   Str(TrimRight(JoinCut(Lines, NoteAt(Lines) + 1, stop - 1, ind + 2)))
            /\ next = Spaces(ind) \o <<"b", ":", " ", "1">> =>
                   /\ dict_keys(NoteMapping(Lines)) = <<NoteKey, <<"b">>>>
                   /\ dict_get(NoteMapping(Lines), <<"b">>) = Str(<<"1">>)
            /\ next = Spaces(ind) \o <<" ", "z">> => dict_keys(NoteMapping(Lines)) = <<NoteKey>>

\* a block scalar of three lines that look like a comment, an item and a mapping
\* line, and the key b after it
C5_Witness ==
    /\ pc = "done"
    /\ NoteDocument(Lines)
    /\ Lines = << NoteLine,
                  <<" ", " ", "#", " ", "c">>,
                  <<" ", " ", " ", " ", "t", "w", "o", " ">>,
                  <<"b", ":", " ", "1">> >>
    /\ result = Returned(Dict(<< [key |-> NoteKey, val |-> Str(<<"#", " ", "c", "\n", " ", " ", "t", "w", "o">>)],
                                 [key |-> <<"b">>, val |-> Str(<<"1">>)] >>))

\* a document with no block scalar: no line holds a `|`
NoBlockScalar(ls) == \A k \in 1..Len(ls) : ~contains(ls[k], "|")

\* C6: blank lines and `#`-comment lines between the substantive lines of a block
\* (a mapping, a sequence, the fields of a sequence item) never end the block and
\* never show in the result: the tree is that of the document without them.
C6_BlankAndCommentLinesIgnored ==
    (pc = "done" /\ NoBlockScalar(Lines)) =>
        result = parse_yaml(TextOf(SelectSeq(Lines, Substantive)))

\* `note: |` followed by content lines (two or more leading spaces, not blank)
\* and empty lines, the first and the last of them content lines
NoteWithInnerBlank(ls) ==
    /\ Len(ls) >= 4
    /\ ls[1] = NoteLine
    /\ \A k \in 2..Len(ls) : ls[k] = EmptyLine \/ (LeadingSpaces(ls[k]) >= 2 /\ strip(ls[k]) # <<>>)
    /\ ls[2] # EmptyLine /\ ls[Len(ls)] # EmptyLine
    /\ \E k \in 3..(Len(ls) - 1) : ls[k] = EmptyLine

\* C10: an empty line between two content lines of a block scalar is kept as an
\* empty line of the string and does not end the block scalar.
C10_InnerBlankLinesKept ==
    (pc = "done" /\ NoteWithInnerBlank(Lines)) =>
        result = Returned(Dict(<< [key |-> NoteKey,
                                   val |-> Str(TrimRight(JoinCut(Lines, 2, Len(Lines), 2)))] >>))

----------------------------------------------------------------------------
(* Properties of _parse_scalar (specification SpecScalar)                   *)

Quotes == {"\"", "'"}

\* what _parse_scalar returned
Normalized == result.val.str

\* s without leading and trailing whitespace
Trimmed(s) ==
    LET a == CHOOSE q \in 1..(Len(s) + 1) :
                /\ q = Len(s) + 1 \/ s[q] \notin Whitespace
                /\ \A j \in 1..(q - 1) : s[j] \in Whitespace
    IN  TrimRight(SubSeq(s, a, Len(s)))

\* s is at least two characters long and its first and last are the same quote
HasQuotePair(s) == Len(s) >= 2 /\ s[1] \in Quotes /\ s[Len(s)] = s[1]

\* s begins and ends with the same quote character, be it one and the same
QuoteAtBothEnds(s) == Len(s) >= 1 /\ s[1] \in Quotes /\ s[Len(s)] = s[1]

C8_OuterPairOnly ==
    (pc = "done" /\ HasQuotePair(Trimmed(value))) =>
        Normalized = SubSeq(Trimmed(value), 2, Len(Trimmed(value)) - 1)

\* 'it''s' yields it''s
C8_Witness ==
    /\ pc = "done"
    /\ value = <<"'", "i", "t", "'", "'", "s", "'">>
    /\ HasQuotePair(Trimmed(value))
    /\ Normalized = <<"i", "t", "'", "'", "s">>

\* C9: the outer pair is removed only from a trimmed value of two or more
\* characters whose first and last are the same quote; every other trimmed value,
\* a single quote character included, is returned unchanged.
C9_StripsOnlyPairs ==
    pc = "done" =>
        Normalized = IF HasQuotePair(Trimmed(value))
                     THEN SubSeq(Trimmed(value), 2, Len(Trimmed(value)) - 1)
                     ELSE Trimmed(value)

----------------------------------------------------------------------------
(* Properties of _parse_block, _parse_map and _parse_block_scalar           *)
(* (specification SpecCalls)                                                *)

\* the call has been made and is one of fn
Called(fn) == pc = "done" /\ call.fn = fn

\* the line with index k, counted from 0 as the code counts
LineAt(k) == Lines[k + 1]

\* line k is substantive: its first character that is no whitespace is no `#`
SubstantiveAt(k) ==
    \E j \in 1..Len(LineAt(k)) :
        /\ LineAt(k)[j] \notin Whitespace \cup {"#"}
        /\ \A h \in 1..(j - 1) : LineAt(k)[h] \in Whitespace

\* line k is a substantive line with n leading spaces
AtIndent(k, n) == SubstantiveAt(k) /\ LeadingSpaces(LineAt(k)) = n

\* line k is a `- ` line at indent n
ItemAt(k, n) ==
    /\ AtIndent(k, n)
    /\ Len(LineAt(k)) >= n + 2
    /\ LineAt(k)[n + 1] = "-"
    /\ LineAt(k)[n + 2] = " "

\* line k has a `:` in it
HasColon(k) == \E j \in 1..Len(LineAt(k)) : LineAt(k)[j] = ":"

\* line k is a `key: ...` line at indent n
MappingLineAt(k, n) == AtIndent(k, n) /\ ~ItemAt(k, n) /\ HasColon(k)

\* the key of the mapping line k at indent n
KeyAt(k, n) == strip(split_left(slice_from(LineAt(k), n), ":"))

\* the index of the first substantive line at or after s, or the number of lines
FirstSubstantive(s) ==
    CHOOSE n \in s..Len(Lines) :
        /\ \A j \in s..(n - 1) : ~SubstantiveAt(j)
        /\ n = Len(Lines) \/ SubstantiveAt(n)

\* one pass of the loop of fn
iteration(fn, lines, i, indent, obj) ==
    CASE fn = "_parse_block"        -> block_iteration(lines, i, indent, obj)
      [] fn = "_parse_map"          -> map_iteration(lines, i, indent, obj)
      [] fn = "_parse_block_scalar" -> block_scalar_iteration(lines, i, indent, obj)

\* what fn has built when it enters its loop
initial(fn) ==
    CASE fn = "_parse_block"        -> None
      [] fn = "_parse_map"          -> EmptyDict
      [] fn = "_parse_block_scalar" -> <<>>

\* the passes a loop of fn makes from cursor i on: each with the cursor and the
\* object it starts with
RECURSIVE Passes(_, _, _, _, _)
PassesAfter(fn, lines, indent, i, obj, pass) ==
    <<[i |-> i, obj |-> obj, pass |-> pass]>> \o
    (IF pass.exit THEN <<>> ELSE Passes(fn, lines, pass.i, indent, pass.obj))

Passes(fn, lines, i, indent, obj) ==
    IF i >= Len(lines) THEN <<>>
    ELSE PassesAfter(fn, lines, indent, i, obj, iteration(fn, lines, i, indent, obj))

\* the passes of the loop of the call that was made
CallPasses == Passes(call.fn, Lines, call.start, call.indent, initial(call.fn))

\* a mapping is being parsed by the pass: the object is a mapping, or nothing yet
\* and the line opens one
MappingActive(p) ==
    /\ call.fn \in {"_parse_block", "_parse_map"}
    /\ p.obj.tag \in {"dict", "None"}

\* the line of the pass is one the parser skips: substantive, at the indent of the
\* mapping, without a `:` and no `- ` item
SkippedLine(p) ==
    /\ MappingActive(p)
    /\ AtIndent(p.i, call.indent)
    /\ ~ItemAt(p.i, call.indent)
    /\ ~HasColon(p.i)

\* the pass p over a skipped line leaves the mapping as it is and moves on by one
\* line
SkipsOneLine(p) ==
    /\ ~p.pass.exit
    /\ p.pass.ret.exc = "none"
    /\ p.pass.calls = <<>>
    /\ p.pass.i = p.i + 1
    /\ p.pass.obj.tag = "dict"
    /\ dict_keys(p.pass.obj) = (IF p.obj.tag = "dict" THEN dict_keys(p.obj) ELSE <<>>)

\* the pass q over a mapping line after the skipped line of pass p works on the
\* mapping p left, and the key of its line is in the mapping that is returned
SameMappingAfter(p, q) ==
    /\ q.obj.tag = "dict"
    /\ \A j \in 1..Len(dict_keys(p.pass.obj)) : dict_has(q.obj, dict_keys(p.pass.obj)[j])
    /\ ~q.pass.exit => dict_has(q.pass.obj, KeyAt(q.i, call.indent))
    /\ ret.exc = "none" => dict_has(ret.val, KeyAt(q.i, call.indent))

LenientSkip(ps) ==
    \A n \in 1..Len(ps) :
        SkippedLine(ps[n]) =>
            /\ SkipsOneLine(ps[n])
            /\ \A m \in (n + 1)..Len(ps) :
                  MappingLineAt(ps[m].i, call.indent) => SameMappingAfter(ps[n], ps[m])

\* C11: a substantive line at the mapping's indent with no `:` that is no `- `
\* item adds no key to the mapping, raises no error and calls nothing, moves the
\* cursor on by exactly one line, and the mapping lines after it put their keys
\* into the same mapping.
C11_LenientSkip == pc = "done" => LenientSkip(CallPasses)

\* a key before the skipped line and a key after it end up in one mapping
KeysAroundSkip(ps) ==
    \E n \in 1..Len(ps) : \E l \in 1..(n - 1) : \E m \in (n + 1)..Len(ps) :
        /\ SkippedLine(ps[n])
        /\ MappingLineAt(ps[l].i, call.indent)
        /\ MappingLineAt(ps[m].i, call.indent)
        /\ KeyAt(ps[l].i, call.indent) # KeyAt(ps[m].i, call.indent)
        /\ dict_has(ret.val, KeyAt(ps[l].i, call.indent))
        /\ dict_has(ret.val, KeyAt(ps[m].i, call.indent))

C11_Witness ==
    /\ pc = "done"
    /\ ret.exc = "none"
    /\ ret.val.tag = "dict"
    /\ KeysAroundSkip(CallPasses)

\* the least number of a set of numbers
Least(S) == CHOOSE x \in S : \A y \in S : x <= y

\* the block of the call is classified as a Sequence: its first substantive line
\* is a `- ` line at the indent of the block
SequenceBlock ==
    /\ Called("_parse_block")
    /\ FirstSubstantive(call.start) < Len(Lines)
    /\ ItemAt(FirstSubstantive(call.start), call.indent)

\* the later substantive lines at the indent of the block that are no `- ` lines
OtherLines ==
    { k \in (FirstSubstantive(call.start) + 1)..(Len(Lines) - 1) :
        AtIndent(k, call.indent) /\ ~ItemAt(k, call.indent) }

\* the `- ` lines at the indent of the block in lines a..(b - 1)
ItemLinesIn(a, b) == { k \in a..(b - 1) : ItemAt(k, call.indent) }

\* C12: once the block at indent I is a Sequence, the first substantive line at
\* indent I that does not start with `- ` ends it: the call returns a Sequence of
\* the items before that line only, with an index no further than that line.
C12_SequenceEndsAtOtherLine ==
    (SequenceBlock /\ OtherLines # {}) =>
        /\ ret.exc = "none"
        /\ ret.val.tag = "list"
        /\ ret.i <= Least(OtherLines)
        /\ Len(ret.val.elems) <= Cardinality(ItemLinesIn(call.start, Least(OtherLines)))

\* a mapping is parsed by the call: _parse_map parses one always, _parse_block
\* when the first substantive line of the block is a line at its indent that is
\* no `- ` line
MappingBlock ==
    \/ Called("_parse_map")
    \/ /\ Called("_parse_block")
       /\ FirstSubstantive(call.start) < Len(Lines)
       /\ AtIndent(FirstSubstantive(call.start), call.indent)
       /\ ~ItemAt(FirstSubstantive(call.start), call.indent)

\* line k ends a mapping at indent n: a substantive line below n, above n, or a
\* `- ` line at n
EndsMapping(k, n) ==
    /\ SubstantiveAt(k)
    /\ LeadingSpaces(LineAt(k)) # n \/ ItemAt(k, n)

\* C13: where a mapping is parsed at indent I, by _parse_block or by _parse_map,
\* a substantive line below I, above I or starting with `- ` at I ends it: the
\* call does not fail, it returns the mapping built so far, and the index it
\* returns is the index of such a line or the number of lines.
C13_MappingEndsAtOtherLine ==
    MappingBlock =>
        /\ ret.exc = "none"
        /\ ret.val.tag = "dict"
        /\ ret.i = Len(Lines) \/ EndsMapping(ret.i, call.indent)

\* the call starts on the first line `- key: rest` of a sequence item
ItemWithField ==
    /\ Called("_parse_block")
    /\ call.start < Len(Lines)
    /\ ItemAt(call.start, call.indent)
    /\ HasColon(call.start)

\* the key of that line
ItemKey == strip(split_left(slice_from(LineAt(call.start), call.indent + 2), ":"))

\* the text after the first colon of that line
ItemRest == strip(split_right(slice_from(LineAt(call.start), call.indent + 2), ":"))

\* the mapping lines `k: v` at indent I + 2 that follow the item line, one after
\* the other
FieldRun ==
    { k \in (call.start + 1)..(Len(Lines) - 1) :
        \A j \in (call.start + 1)..k : MappingLineAt(j, call.indent + IndentStep) }

\* C14: for a sequence item at indent I whose first line is `- key: rest`, with
\* rest a plain scalar, `|` or empty, the mapping lines `k: v` at indent I + 2
\* that follow become fields of the same item mapping, next to key, in the
\* Sequence the call returns.
C14_FieldsJoinItem ==
    (ItemWithField /\ ret.exc = "none") =>
        /\ ret.val.tag = "list"
        /\ Len(ret.val.elems) >= 1
        /\ ret.val.elems[1].tag = "dict"
        /\ dict_has(ret.val.elems[1], ItemKey)
        /\ \A k \in FieldRun :
              dict_has(ret.val.elems[1], KeyAt(k, call.indent + IndentStep))

\* the first substantive line at or after the start index of the call, or the
\* number of lines
StartLine == FirstSubstantive(call.start)

\* the block of the call starts with a line indented deeper than the call expects
OverIndentedStart ==
    /\ Called("_parse_block")
    /\ StartLine < Len(Lines)
    /\ LeadingSpaces(LineAt(StartLine)) > call.indent

\* C15: when _parse_block is called with indent I and the first substantive line
\* at or after the start index has more than I leading spaces, it returns Empty
\* (None) with the index of that line: no substantive line is consumed and no
\* error is raised.
C15_OverIndentedStart == OverIndentedStart => ret = Return(None, StartLine)

\* blank or comment lines are passed on the way to the over-indented line
C15_Witness ==
    /\ OverIndentedStart
    /\ StartLine > call.start
    /\ ret = Return(None, StartLine)

\* the block of the call starts with a line indented less than the call expects
UnderIndentedStart ==
    /\ Called("_parse_block")
    /\ StartLine < Len(Lines)
    /\ LeadingSpaces(LineAt(StartLine)) < call.indent

\* C16 as stated: when the first substantive line at or after the start index s
\* has fewer than I leading spaces, _parse_block returns Empty with the unchanged
\* index s, also when blank or comment lines lie before that line.
C16_UnderIndentedStartUnchanged == UnderIndentedStart => ret = Return(None, call.start)

\* C16: when the first substantive line at or after the start index s has fewer
\* than I leading spaces, _parse_block returns Empty with the index of that
\* line, which is s exactly when line s is that line.
C16_UnderIndentedStartAtLine ==
    UnderIndentedStart =>
        /\ ret = Return(None, StartLine)
        /\ ret.i = call.start <=> SubstantiveAt(call.start)

\* blank or comment lines lie between the start index and the under-indented line
C16_Witness ==
    /\ UnderIndentedStart
    /\ StartLine > call.start
    /\ ret = Return(None, StartLine)

\* C17: every call of _parse_block, _parse_map and _parse_block_scalar that
\* returns, called with start index s, returns an index n with s <= n <= number
\* of lines; for _parse_block and _parse_map n is the number of lines or line n
\* is a substantive line whose indent differs from the indent I of the block or,
\* for _parse_map, which starts a `- ` item at I.
C17_CursorContract ==
    (pc = "done" /\ ret.exc = "none") =>
        /\ call.start <= ret.i
        /\ ret.i <= Len(Lines)
        /\ (call.fn \in {"_parse_block", "_parse_map"} /\ ret.i < Len(Lines)) =>
              /\ SubstantiveAt(ret.i)
              /\ \/ LeadingSpaces(LineAt(ret.i)) # call.indent
                 \/ call.fn = "_parse_map" /\ ItemAt(ret.i, call.indent)

\* a call that consumed lines and stopped before the end of the lines
C17_Witness ==
    /\ pc = "done"
    /\ ret.exc = "none"
    /\ call.fn \in {"_parse_block", "_parse_map"}
    /\ call.start < ret.i
    /\ ret.i < Len(Lines)
    /\ ret.val.tag \in {"list", "dict"}
    /\ ret.val # EmptyDict

\* the call has returned a Sequence
ReturnedSequence == Called("_parse_block") /\ ret.exc = "none" /\ ret.val.tag = "list"

\* the `- ` lines at the indent of the block among the lines the call consumed
ConsumedItems == ItemLinesIn(call.start, ret.i)

\* the k-th number of a set of numbers, in ascending order
Nth(S, k) == CHOOSE x \in S : Cardinality({ y \in S : y < x }) = k - 1

\* the node made from the `- ` line k of the block: what the line and the lines
\* under it put into a Sequence that was empty
ItemNode(k) ==
    sequence_item(Lines, k, call.indent, None, slice_from(LineAt(k), call.indent)).obj.elems[1]

\* C18: in a block at indent I parsed as a Sequence, the k-th element of the list
\* is the node made from the k-th `- ` line at indent I of the block: no element
\* is dropped, doubled or out of its place.
C18_SequenceOrder ==
    ReturnedSequence =>
        /\ Len(ret.val.elems) = Cardinality(ConsumedItems)
        /\ \A k \in 1..Len(ret.val.elems) : ret.val.elems[k] = ItemNode(Nth(ConsumedItems, k))

\* a Sequence of a scalar item, a mapping item and a nested block, all different
C18_Witness ==
    /\ ReturnedSequence
    /\ Len(ret.val.elems) >= 2
    /\ \E j, k \in 1..Len(ret.val.elems) :
          /\ j < k
          /\ ret.val.elems[j].tag # ret.val.elems[k].tag
          /\ ret.val.elems[j].tag \in {"str", "dict"}

\* the greater of two numbers
Greater(a, b) == IF a >= b THEN a ELSE b

\* the indents a call nested in a call at indent 0 can have
PassIndents == { n * IndentStep : n \in 0..MaxLines }

\* the objects a loop of fn can hold, as far as their kind goes
PassObjects(fn) ==
    CASE fn = "_parse_block"        -> {None, List(<<>>), EmptyDict}
      [] fn = "_parse_map"          -> {EmptyDict}
      [] fn = "_parse_block_scalar" -> {<<>>}

\* the pass p made at cursor i exits the loop or moves the cursor forward; the
\* calls it makes start after line i, each no earlier than the one before, and
\* the cursor after the pass is no earlier than any of them
PassMovesForward(i, p) ==
    /\ p.exit \/ p.i > i
    /\ \A n \in 1..Len(p.calls) :
          /\ p.calls[n].start > i
          /\ n > 1 => p.calls[n].start >= p.calls[n - 1].start
          /\ ~p.exit => p.i >= p.calls[n].start

\* every pass the loop of fn can make over the lines moves forward
LoopMovesForward(fn) ==
    \A i \in 0..(Len(Lines) - 1), ind \in PassIndents, obj \in PassObjects(fn) :
        PassMovesForward(i, iteration(fn, Lines, i, ind, obj))

\* the longest chain of calls nested in one another that the loop of fn makes
\* from cursor i on
RECURSIVE Nesting(_, _, _, _, _)
RECURSIVE CallsNesting(_, _)
CallsNesting(lines, calls) ==
    IF calls = <<>> THEN 0
    ELSE Greater(1 + Nesting(Head(calls).fn, lines, Head(calls).start, Head(calls).indent,
                             initial(Head(calls).fn)),
                 CallsNesting(lines, Tail(calls)))

NestingAfter(fn, lines, indent, pass) ==
    Greater(CallsNesting(lines, pass.calls),
            IF pass.exit THEN 0 ELSE Nesting(fn, lines, pass.i, indent, pass.obj))

Nesting(fn, lines, i, indent, obj) ==
    IF i >= Len(lines) THEN 0
    ELSE NestingAfter(fn, lines, indent, iteration(fn, lines, i, indent, obj))

\* a loop that made the passes ps from cursor start on made no more of them than
\* there are lines left, each moving forward
PassesMoveForward(start, ps) ==
    /\ Len(ps) <= Len(Lines) - start
    /\ \A n \in 1..Len(ps) : PassMovesForward(ps[n].i, ps[n].pass)

\* the calls nested below the call that was made
CallNesting == Nesting(call.fn, Lines, call.start, call.indent, initial(call.fn))

\* C19: parsing ends after one forward pass: every pass of the loops of
\* _parse_block_scalar, _parse_map and _parse_block exits the loop or moves the
\* cursor forward, and the cursor never moves back across the calls a pass
\* makes; so a call makes no more passes than there are lines after its start,
\* hands back an index no earlier than its start, and the calls nested below it
\* are never deeper than the number of lines.
C19_OneForwardPass ==
    /\ pc = "start" =>
          /\ LoopMovesForward("_parse_block_scalar")
          /\ LoopMovesForward("_parse_map")
          /\ LoopMovesForward("_parse_block")
    /\ pc = "done" =>
          /\ PassesMoveForward(call.start, CallPasses)
          /\ ret.exc = "none" => ret.i >= call.start
          /\ CallNesting <= Len(Lines) - call.start

\* a call that made passes over all the lines, with calls nested two deep
C19_Witness ==
    /\ pc = "done"
    /\ call.start = 0
    /\ ret.exc = "none"
    /\ ret.i = Len(Lines)
    /\ Len(CallPasses) >= 2
    /\ CallNesting >= 2

----------------------------------------------------------------------------
(* Failures of parse_yaml (specification Spec)                              *)

\* the exceptions of a sequence operation on a mapping (obj.append on a dict) and
\* of a mapping assignment to a sequence (obj[key] = val on a list)
TypeConfusion == {"AttributeError", "TypeError"}

\* C20: StructureError is the only failure of the parser: for every text
\* parse_yaml returns a Mapping or raises StructureError (ValueError), and the
\* parse never applies a sequence operation to a mapping under construction or a
\* mapping assignment to a sequence under construction.
C20_OnlyStructureError ==
    pc = "done" =>
        /\ Top.exc \notin TypeConfusion
        /\ result.exc \in {"none", "ValueError"}
        /\ result.exc = "none" => result.val.tag = "dict"

\* C21: whenever parse_yaml returns a Mapping, the top-level call of _parse_block
\* has consumed the whole input: the index it returns is the number of lines,
\* and every substantive `key: value` line at indent 0 has its key in the
\* Mapping returned.
C21_NoSilentTruncation ==
    (pc = "done" /\ ReturnsMapping) =>
        /\ Top.i = Len(Lines)
        /\ \A k \in 0..(Len(Lines) - 1) :
              MappingLineAt(k, 0) => dict_has(result.val, KeyAt(k, 0))

====
